---- MODULE Spec2Model ----
(***************************************************************************)
(* Verification model of cutleast-core-lib:                                *)
(*   - the persistent file cache (core/cache/cache.py, Singleton base),    *)
(*   - two concurrent writers of one cache entry (Cache.save_to_cache),    *)
(*   - the progress-reporting thread pool (ProgressExecutor.submit),       *)
(*   - the progress dialog and its worker thread (ProgressDialog.run),     *)
(*   - the update check (Updater, BaseApp.check_for_updates),              *)
(*   - the application settings (AppConfig),                               *)
(*   - the scan of a folder tree (DirectoryScanner.scan_folder),           *)
(*   - the collapsible section (SectionAreaWidget),                        *)
(*   - the build pipeline (Builder.run).                                   *)
(* Each subsystem has its own variables, initial predicate, next-state     *)
(* relation and specification; a specification leaves the variables of the *)
(* other subsystems unchanged.                                             *)
(***************************************************************************)
EXTENDS Integers, Sequences, FiniteSets, TLC

(***************************************************************************)
(* Bounds of the model.                                                    *)
(***************************************************************************)
\* Largest release number; release n stands for the version string "n.0.0".
MaxVersion == 2
\* Largest value of the wall clock (seconds).
MaxTime == 2
\* Largest max_age a caller passes (seconds).
MaxAge == 1
\* Number of write() calls a large object's pickle is flushed in.
MaxWrites == 2

(***************************************************************************)
(* Values of the program.                                                  *)
(***************************************************************************)
\* Cache keys: the relative path of an entry below the cache folder.
Keys == {"k1"}
\* Picklable data: Python's None and two other objects.
None == "None"
Values == {None, "a", "b"}
\* The _Undefined sentinel of get_from_cache's default parameter.
Undefined == "_Undefined"
Defaults == {Undefined, None, "d"}
\* max_age arguments: NoMaxAge is Python's None.
NoMaxAge == -1
MaxAges == {NoMaxAge, MaxAge}
\* app_version arguments: "development" or a release.
Development == 0
AppVersions == {Development} \cup (1..MaxVersion)
\* Cache.__instance while no instance is registered.
NoInstance == [id |-> 0, version |-> Development]

(***************************************************************************)
(* State of the cache subsystem.                                           *)
(***************************************************************************)
VARIABLES
    instance,     \* Singleton.__instance of class Cache
    disk,         \* the cache folder: root, sub(folder), version marker, entry files
    memo,         \* FunctionCache's memo table of Cache.__read_file, by path
    now,          \* time.time()
    last          \* the most recent operation and its outcome

cacheVars == <<instance, disk, memo, now, last>>

(***************************************************************************)
(* State of two callers of Cache.save_to_cache running at the same time.   *)
(***************************************************************************)
VARIABLES
    writers       \* per caller: key, data, position in save_to_cache, file offset

raceVars == <<writers>>

(***************************************************************************)
(* State of a ProgressExecutor, its caller and its worker threads.         *)
(***************************************************************************)
VARIABLES
    hasDialog,    \* self.__dialog is not None
    total,        \* self.__total_tasks
    completed,    \* self.__completed_tasks
    lock,         \* self.__lock: "" when free, else the thread holding it
    workerIds,    \* self.__worker_ids: thread name -> progress id (0: no entry)
    queue,        \* the pool's work queue: submitted tasks no thread has taken
    futures,      \* the futures returned by submit, in submission order
    caller,       \* the submitting thread: position in submit, value read
    workers,      \* per worker thread: position in worker_fn, its locals
    mainUpdates,  \* payloads handed to dialog.updateMainProgress, in call order
    slotsShown,   \* progress ids handed to dialog.updateProgress
    awaited,      \* what result() gave the caller, per future
    taskLog       \* per task: how its callable ended, increments of completed made for it

execVars == <<hasDialog, total, completed, lock, workerIds, queue, futures,
              caller, workers, mainUpdates, slotsShown, awaited, taskLog>>

(***************************************************************************)
(* State of a ProgressDialog, its worker thread and the user in front.     *)
(***************************************************************************)
VARIABLES
    target,       \* the callable given to ProgressDialog: how it ends, with what
    thread,       \* self.__thread: QThread state, __return_result
    runPc,        \* the main thread's position in ProgressDialog.run
    signals,      \* queued signal emissions the main thread has not handled yet
    dialogOpen,   \* the dialog is shown and its event loop has not been left
    mainBar,      \* self.__main_progress: label text and QProgressBar state
    taskbar,      \* the taskbar API: availability, progress state set last
    runOutcome    \* how run() ended

dialogVars == <<target, thread, runPc, signals, dialogOpen, mainBar, taskbar, runOutcome>>

(***************************************************************************)
(* State of the update check.                                              *)
(***************************************************************************)
VARIABLES
    updater,      \* Singleton.__instance of class Updater and its attributes
    updaterDialog,\* an UpdaterDialog was created
    lastUpd       \* the most recent call on the updater and its outcome

updaterVars == <<updater, updaterDialog, lastUpd>>

(***************************************************************************)
(* State of the application settings.                                      *)
(***************************************************************************)
VARIABLES
    configFile,   \* the user config file app.json: existence, JSON value per key
    config,       \* the AppConfig object of the process
    lastCfg       \* the most recent operation on the settings and its outcome

configVars == <<configFile, config, lastCfg>>

(***************************************************************************)
(* State of a folder scan.                                                 *)
(***************************************************************************)
VARIABLES
    scanTree,     \* the folder tree on disk below the scanned folder
    lastScan      \* the most recent scan_folder call and its outcome

scanVars == <<scanTree, lastScan>>

(***************************************************************************)
(* State of a collapsible section.                                         *)
(***************************************************************************)
VARIABLES
    section,      \* the SectionAreaWidget, its toggle button and content widget
    lastSec       \* the most recent operation on the section and its signals

sectionVars == <<section, lastSec>>

(***************************************************************************)
(* State of the build pipeline.                                            *)
(***************************************************************************)
VARIABLES
    buildFs,      \* the folders and files a build touches, and the backend
    lastBuild     \* the most recent Builder.run call and its outcome

buildVars == <<buildFs, lastBuild>>

\* The subsystems added after the first five.
moreVars == <<configVars, scanVars, sectionVars, buildVars>>

\* What the actions of one subsystem leave unchanged.
notCache == <<raceVars, execVars, dialogVars, updaterVars, moreVars>>
notRace == <<execVars, dialogVars, updaterVars, moreVars>>
notExec == <<cacheVars, raceVars, dialogVars, updaterVars, moreVars>>
notDialog == <<cacheVars, raceVars, execVars, updaterVars, moreVars>>
notUpdater == <<cacheVars, raceVars, execVars, dialogVars, moreVars>>
notConfig == <<cacheVars, raceVars, execVars, dialogVars, updaterVars, scanVars, sectionVars, buildVars>>
notScan == <<cacheVars, raceVars, execVars, dialogVars, updaterVars, configVars, sectionVars, buildVars>>
notSection == <<cacheVars, raceVars, execVars, dialogVars, updaterVars, configVars, scanVars, buildVars>>
notBuild == <<cacheVars, raceVars, execVars, dialogVars, updaterVars, configVars, scanVars, sectionVars>>

\* A file that does not exist.
NoFile == [exists |-> FALSE, content |-> <<>>, mtime |-> 0]
NoMarker == [exists |-> FALSE, version |-> Development]
\* A path FunctionCache has no memo entry for.
NotMemoized == "<not memoized>"
NoAge == -1
\* An operation as recorded in last: the call (op, key, arg, maxAge),
\* the state it was made in (registered: a Cache instance was registered; age:
\* the age of the entry file, NoAge without one) and its outcome (raised: the
\* exception, "" for a normal return; result; invoked: the wrapped function
\* ran; check: what Cache.__init__'s version check decided).
Op(op, key, arg, maxAge, registered, age, raised, result, invoked, check) ==
    [op |-> op, key |-> key, arg |-> arg, maxAge |-> maxAge,
     registered |-> registered, age |-> age, raised |-> raised,
     result |-> result, invoked |-> invoked, check |-> check]
NoOp == Op("none", "", "", NoMaxAge, FALSE, NoAge, "", "", FALSE, "")

(***************************************************************************)
(* pickle: an object is written as a sequence of blocks, one per write()   *)
(* call; small objects take one call, a large object ("a", "b") is flushed *)
(* frame by frame.                                                         *)
(***************************************************************************)
WritesOf(v) == IF v = None THEN 1 ELSE MaxWrites

PickleDump(v) == [i \in 1..WritesOf(v) |-> [val |-> v, part |-> i]]

\* A block of zero bytes: what a write beyond the end of a file leaves
\* between the old end and the written block.
Hole == [val |-> "<zeros>", part |-> 0]

\* pickle.load: reads blocks from the start of the file up to the STOP opcode
\* of the first object and ignores what follows; it raises on an empty file
\* or a truncated stream (EOFError / UnpicklingError), and a stream made of
\* the blocks of different objects is not the pickle of either.
PickleLoad(content) ==
    IF content = <<>> THEN [raised |-> "EOFError", val |-> ""]
    ELSE IF content[1] = Hole THEN [raised |-> "UnpicklingError", val |-> ""]
    ELSE LET v == content[1].val
             n == WritesOf(v)
         IN IF Len(content) < n THEN [raised |-> "UnpicklingError", val |-> ""]
            ELSE IF \A i \in 1..n : content[i] = [val |-> v, part |-> i]
                 THEN [raised |-> "", val |-> v]
                 ELSE [raised |-> "", val |-> "<mixture>"]

(***************************************************************************)
(* The file system calls save_to_cache makes on one entry file.            *)
(***************************************************************************)
\* open(path, "wb"): creates the file or truncates it to length 0.
OpenTruncate(f, t) == [exists |-> TRUE, content |-> <<>>, mtime |-> t]

\* write() of one block at the writer's own file offset (in blocks).
WriteAt(f, offset, block, t) ==
    LET n == IF Len(f.content) > offset + 1 THEN Len(f.content) ELSE offset + 1
    IN [exists |-> TRUE,
        content |-> [i \in 1..n |->
                        IF i = offset + 1 THEN block
                        ELSE IF i <= Len(f.content) THEN f.content[i]
                        ELSE Hole],
        mtime |-> t]

\* pickle.dump(data, file) by one writer nobody interferes with: the blocks
\* of the pickle, written one after the other from offset 0.
RECURSIVE WriteBlocks(_, _, _, _)
WriteBlocks(f, blocks, offset, t) ==
    IF offset >= Len(blocks) THEN f
    ELSE WriteBlocks(WriteAt(f, offset, blocks[offset + 1], t), blocks, offset + 1, t)

(***************************************************************************)
(* Singleton and Cache: the handlers as functions of the state.            *)
(***************************************************************************)
\* Variant: the singleton check is missing.
SingletonRejects_Never(inst) == FALSE

\* Singleton.__init__: a new object is rejected while another is registered
\* (Cache.__init__ never passes replace_existing_instance).
SingletonRejects(inst) == inst # NoInstance

\* semantic_version.Version(text): "development" is no semantic version.
IsSemVer(v) == v # Development

\* Variant: the version comparison is turned around.
VersionCheck_Reversed(mk, nonEmpty, appVersion) ==
    IF mk.exists
    THEN IF appVersion # Development
         THEN IF mk.version = Development THEN "raise"
              ELSE IF mk.version > appVersion THEN "purge" ELSE "keep"
         ELSE "keep"
    ELSE IF nonEmpty THEN "purge" ELSE "keep"

\* Cache.__init__, the version check: "raise" when Version(cache_version)
\* raises ValueError, "purge" when clear_caches is called, else "keep".
VersionCheck(mk, nonEmpty, appVersion) ==
    IF mk.exists
    THEN IF appVersion # Development
         THEN IF ~IsSemVer(mk.version) THEN "raise"
              ELSE IF mk.version < appVersion THEN "purge" ELSE "keep"
         ELSE "keep"
    ELSE IF nonEmpty THEN "purge" ELSE "keep"

\* Cache.clear_caches: shutil.rmtree(self.path).
ClearCaches(d) ==
    [root |-> FALSE, sub |-> FALSE, marker |-> NoMarker,
     files |-> [k \in Keys |-> NoFile]]

\* Cache.__init__ after the singleton check: [raised, disk].
CacheInit(d, appVersion) ==
    LET check == VersionCheck(d.marker, d.root /\ d.sub, appVersion)
        d1 == IF check = "purge" THEN ClearCaches(d) ELSE d
    IN IF check = "raise"
       THEN [raised |-> "ValueError", disk |-> d]
       ELSE [raised |-> "",
             disk |-> [d1 EXCEPT !.root = TRUE,
                                 !.marker = [exists |-> TRUE, version |-> appVersion]]]

\* get_from_cache, the age test of an entry file.
Expired(f, maxAge, t) ==
    /\ f.exists
    /\ maxAge # NoMaxAge
    /\ (t - f.mtime) > maxAge

\* The body of Cache.__read_file: open the file and unpickle it.
ReadFileBody(f) ==
    IF ~f.exists THEN [raised |-> "FileNotFoundError", val |-> ""]
    ELSE PickleLoad(f.content)

\* FunctionCache.cache around __read_file: the result of the first call that
\* returned for a path is kept and returned to every later call for it.
\* [raised, val, memo]
FunctionCacheCall(mm, k, f) ==
    IF mm[k] # NotMemoized
    THEN [raised |-> "", val |-> mm[k], memo |-> mm]
    ELSE LET r == ReadFileBody(f)
         IN [raised |-> r.raised, val |-> r.val,
             memo |-> IF r.raised = "" THEN [mm EXCEPT ![k] = r.val] ELSE mm]

\* Cache.get_from_cache(key, max_age, default): [raised, val, files, memo].
\* Without a registered instance the path is taken relative to the working
\* directory, where the program stores nothing.
GetFromCache(inst, fs, mm, t, k, maxAge, default) ==
    LET registered == inst # NoInstance
        f == IF registered THEN fs[k] ELSE NoFile
        fs1 == IF registered /\ Expired(f, maxAge, t)
               THEN [fs EXCEPT ![k] = NoFile] ELSE fs
        f1 == IF registered THEN fs1[k] ELSE NoFile
    IN IF ~f1.exists /\ default # Undefined
       THEN [raised |-> "", val |-> default, files |-> fs1, memo |-> mm]
       ELSE IF registered
            THEN LET r == FunctionCacheCall(mm, k, f1)
                 IN [raised |-> r.raised, val |-> r.val, files |-> fs1, memo |-> r.memo]
            ELSE LET r == ReadFileBody(f1)
                 IN [raised |-> r.raised, val |-> r.val, files |-> fs1, memo |-> mm]

\* Variant: the entry is written below the working directory's cache folder
\* also while no instance is registered.
SaveToCache_Always(inst, d, t, k, data) ==
    [d EXCEPT !.root = TRUE, !.sub = TRUE,
              !.files[k] = WriteBlocks(OpenTruncate(d.files[k], t),
                                       PickleDump(data), 0, t)]

\* Cache.save_to_cache(key, data): the disk afterwards.
SaveToCache(inst, d, t, k, data) ==
    IF inst = NoInstance THEN d
    ELSE [d EXCEPT !.root = TRUE, !.sub = TRUE,
                   !.files[k] = WriteBlocks(OpenTruncate(d.files[k], t),
                                            PickleDump(data), 0, t)]

\* The wrapper of persistent_cache, given the value the wrapped function
\* returns when it is invoked: [raised, val, invoked, disk, memo].
PersistentCall(inst, d, mm, t, k, maxAge, fnResult) ==
    LET g == GetFromCache(inst, d.files, mm, t, k, maxAge, None)
        d1 == [d EXCEPT !.files = g.files]
    IN IF g.raised # ""
       THEN [raised |-> g.raised, val |-> "", invoked |-> FALSE, disk |-> d1, memo |-> g.memo]
       ELSE IF g.val = None
       THEN [raised |-> "", val |-> fnResult, invoked |-> TRUE,
             disk |-> SaveToCache(inst, d1, t, k, fnResult), memo |-> g.memo]
       ELSE [raised |-> "", val |-> g.val, invoked |-> FALSE, disk |-> d1, memo |-> g.memo]

(***************************************************************************)
(* The cache subsystem as a state machine: one process at a time uses the  *)
(* cache folder; the folder outlives the process.                          *)
(***************************************************************************)
EmptyDisk == [root |-> FALSE, sub |-> FALSE, marker |-> NoMarker,
              files |-> [k \in Keys |-> NoFile]]
EmptyMemo == [k \in Keys |-> NotMemoized]

\* The age of key k's entry file, as the caller of an operation sees it.
AgeOf(k) == IF instance # NoInstance /\ disk.files[k].exists
            THEN now - disk.files[k].mtime ELSE NoAge

CacheStart ==
    /\ instance = NoInstance
    /\ disk = EmptyDisk
    /\ memo = EmptyMemo
    /\ now = 0
    /\ last = NoOp

\* Whether the cache folder holds entry files.
EntriesOn(d) == IF \E k \in Keys : d.files[k].exists THEN "entries" ELSE "no entries"

\* The object a constructor call creates: distinct from the registered one.
NewObject(inst, v) == [id |-> inst.id + 1, version |-> v]

\* Cache(cache_path, app_version)
Construct(v) ==
    /\ UNCHANGED <<memo, now, notCache>>
    /\ IF SingletonRejects(instance)
       THEN /\ UNCHANGED <<instance, disk>>
            /\ last' = Op("construct", "", EntriesOn(disk), v, TRUE, NoAge, "RuntimeError",
                          "", FALSE, "")
       ELSE LET c == CacheInit(disk, v)
            IN /\ instance' = NewObject(instance, v)
               /\ disk' = c.disk
               /\ last' = Op("construct", "", EntriesOn(disk), v, FALSE, NoAge, c.raised, "", FALSE,
                             VersionCheck(disk.marker, disk.root /\ disk.sub, v))

\* cache.clear_caches()
Clear ==
    /\ instance # NoInstance
    /\ disk' = ClearCaches(disk)
    /\ last' = Op("clear", "", "", NoMaxAge, TRUE, NoAge, "", "", FALSE, "")
    /\ UNCHANGED <<instance, memo, now, notCache>>

\* Cache.get_from_cache(k, max_age=m, default=dflt)
Get(k, m, dflt) ==
    LET g == GetFromCache(instance, disk.files, memo, now, k, m, dflt)
    IN /\ disk' = [disk EXCEPT !.files = g.files]
       /\ memo' = g.memo
          /\ last' = Op("get", k, dflt, m, instance # NoInstance, AgeOf(k),
                     g.raised, g.val, FALSE, "")
       /\ UNCHANGED <<instance, now, notCache>>

\* Cache.save_to_cache(k, v)
Save(k, v) ==
    /\ disk' = SaveToCache(instance, disk, now, k, v)
    /\ last' = Op("save", k, v, NoMaxAge, instance # NoInstance, AgeOf(k),
                  "", "", FALSE, "")
    /\ UNCHANGED <<instance, memo, now, notCache>>

\* Cache.save_to_cache(k, v) in a worker thread that is terminated
\* (QThread.terminate) inside pickle.dump, after n of the pickle's blocks
\* reached the file; the process goes on.
SaveInterrupted(k, v, n) ==
    /\ instance # NoInstance
    /\ n < WritesOf(v)
    /\ disk' = [disk EXCEPT !.root = TRUE, !.sub = TRUE,
                            !.files[k] = WriteBlocks(OpenTruncate(disk.files[k], now),
                                                     SubSeq(PickleDump(v), 1, n), 0, now)]
    /\ last' = Op("interrupted save", k, v, NoMaxAge, TRUE, AgeOf(k),
                  "", "", FALSE, "")
    /\ UNCHANGED <<instance, memo, now, notCache>>

\* A call of a function wrapped by Cache.persistent_cache(max_age=m) whose
\* id_generator yields k for the arguments; the function returns r if invoked.
Call(k, m) ==
    \E r \in Values :
        LET c == PersistentCall(instance, disk, memo, now, k, m, r)
        IN /\ (~c.invoked => r = None)   \* r is unused unless the function runs
           /\ disk' = c.disk
           /\ memo' = c.memo
                  /\ last' = Op("call", k, "", m, instance # NoInstance, AgeOf(k),
                         c.raised, c.val, c.invoked, "")
           /\ UNCHANGED <<instance, now, notCache>>

\* One second passes.
Tick ==
    /\ now < MaxTime
    /\ now' = now + 1
    /\ UNCHANGED <<instance, disk, memo, last, notCache>>

\* The process exits and the application is started again: class attributes
\* and the memo table start afresh, the cache folder stays.
Restart ==
    /\ instance' = NoInstance
    /\ memo' = EmptyMemo
    /\ last' = Op("restart", "", "", NoMaxAge, FALSE, NoAge, "", "", FALSE, "")
    /\ UNCHANGED <<disk, now, notCache>>

(***************************************************************************)
(* Two callers of Cache.save_to_cache on one key at the same time.  Each   *)
(* opens the entry file itself: one file, a file offset per caller.        *)
(***************************************************************************)
Writers == {"w1", "w2"}

WritersIdle == [w \in Writers |-> [key |-> "k1", data |-> None, pc |-> "idle", offset |-> 0]]

RaceStart ==
    writers \in [Writers -> [key : Keys, data : Values, pc : {"call"}, offset : {0}]]

\* cache.path / cache_file_path, parent.mkdir, cache_file_path.open("wb")
RaceOpen(w) ==
    /\ writers[w].pc = "call"
    /\ instance # NoInstance
    /\ disk' = [disk EXCEPT !.root = TRUE, !.sub = TRUE,
                            !.files[writers[w].key] = OpenTruncate(@, now)]
    /\ writers' = [writers EXCEPT ![w].pc = "dump"]
    /\ UNCHANGED <<instance, memo, now, last, notRace>>

\* pickle.dump: the next block of the pickle reaches the file.
RaceWrite(w) ==
    /\ writers[w].pc = "dump"
    /\ writers[w].offset < WritesOf(writers[w].data)
    /\ disk' = [disk EXCEPT !.files[writers[w].key] =
                    WriteAt(@, writers[w].offset,
                            PickleDump(writers[w].data)[writers[w].offset + 1], now)]
    /\ writers' = [writers EXCEPT ![w].offset = @ + 1]
    /\ UNCHANGED <<instance, memo, now, last, notRace>>

\* The with block is left, the file is closed and save_to_cache returns.
RaceClose(w) ==
    /\ writers[w].pc = "dump"
    /\ writers[w].offset = WritesOf(writers[w].data)
    /\ writers' = [writers EXCEPT ![w].pc = "returned"]
    /\ UNCHANGED <<instance, disk, memo, now, last, notRace>>

(***************************************************************************)
(* ProgressExecutor: submit and the worker_fn it wraps each callable in,   *)
(* run by the threads of the pool.  A statement that reads or writes a     *)
(* shared attribute is a step of its own; "with self.__lock" is entered    *)
(* only while no other thread holds the lock.                              *)
(***************************************************************************)
\* Tasks one caller submits.
MaxTasks == 2
Tasks == 1..MaxTasks
\* current_thread().name of the pool's threads (max_workers = 2).
Threads == {"ThreadPoolExecutor-0_0", "ThreadPoolExecutor-0_1"}
CallerThread == "MainThread"

NoLocals == [pc |-> "idle", task |-> 0, reg |-> 0, workerId |-> 0, outcome |-> "",
             textCompleted |-> 0, textTotal |-> 0, value |-> 0, maximum |-> 0]

\* Variant: the counters are updated without the lock.
LockFree_NoLock(l) == TRUE

\* Lock.acquire: the lock can be taken.
LockFree(l) == l = ""

\* Variant: the counter is increased by two.
Incremented_Twice(x) == x + 2

\* x += 1 on a value read before.
Incremented(x) == x + 1

\* len(self.__worker_ids)
LenWorkerIds(ids) == Cardinality({t \in Threads : ids[t] # 0})

\* Variant: the id is assigned with self.__worker_ids[name] = n.
SetDefault_Overwrite(ids, name, n) == [ids EXCEPT ![name] = n]

\* self.__worker_ids.setdefault(name, n): the dict afterwards.
SetDefault(ids, name, n) == IF ids[name] # 0 THEN ids ELSE [ids EXCEPT ![name] = n]

\* Variant: the task is counted after fn's call inside the try block.
CountsCompletion_OnReturnOnly(outcome) == outcome = "returned"

\* Whether the statements after fn's call that count the task run for this
\* outcome of fn: they stand in a finally clause.
CountsCompletion(outcome) == outcome \in {"returned", "raised"}

\* The exception and the return value of task i's callable.
ExceptionOf(i) == [exc |-> "Error", task |-> i]
ResultOf(i) == [val |-> "result", task |-> i]

\* _WorkItem.run: the future after worker_fn returned or raised.
FutureDone(i, outcome) ==
    IF outcome = "raised"
    THEN [state |-> "finished", raised |-> TRUE, value |-> ExceptionOf(i)]
    ELSE [state |-> "finished", raised |-> FALSE, value |-> ResultOf(i)]

\* Future.result() of a future that is done: what the caller gets.
NotAwaited == [got |-> "", value |-> ResultOf(0)]
FutureResult(f) ==
    IF f.state = "cancelled" THEN [got |-> "CancelledError", value |-> ResultOf(0)]
    ELSE IF f.raised THEN [got |-> "raised", value |-> f.value]
    ELSE [got |-> "returned", value |-> f.value]

PendingFuture(i) == [state |-> "pending", raised |-> FALSE, value |-> ResultOf(0)]

ExecStart ==
    /\ hasDialog \in BOOLEAN
    /\ total = 0
    /\ completed = 0
    /\ lock = ""
    /\ workerIds = [t \in Threads |-> 0]
    /\ queue = <<>>
    /\ futures = <<>>
    /\ caller = [pc |-> "idle", reg |-> 0]
    /\ workers = [t \in Threads |-> NoLocals]
    /\ mainUpdates = <<>>
    /\ slotsShown = {}
    /\ awaited = [i \in Tasks |-> NotAwaited]
    /\ taskLog = [i \in Tasks |-> [outcome |-> "", counted |-> 0]]

\* submit, "with self.__lock:" entered and self.__total_tasks read
SubmitLock ==
    /\ caller.pc = "idle"
    /\ Len(futures) < MaxTasks
    /\ LockFree(lock)
    /\ lock' = CallerThread
    /\ caller' = [pc |-> "locked", reg |-> total]
    /\ UNCHANGED <<hasDialog, total, completed, workerIds, queue, futures, workers,
                   mainUpdates, slotsShown, awaited, taskLog, notExec>>

\* submit, self.__total_tasks written and the lock released
SubmitCount ==
    /\ caller.pc = "locked"
    /\ total' = Incremented(caller.reg)
    /\ lock' = ""
    /\ caller' = [pc |-> "enqueue", reg |-> 0]
    /\ UNCHANGED <<hasDialog, completed, workerIds, queue, futures, workers,
                   mainUpdates, slotsShown, awaited, taskLog, notExec>>

\* submit, super().submit(worker_fn): a pending future, a queued work item
SubmitEnqueue ==
    /\ caller.pc = "enqueue"
    /\ futures' = Append(futures, PendingFuture(Len(futures) + 1))
    /\ queue' = Append(queue, Len(futures) + 1)
    /\ caller' = [pc |-> "idle", reg |-> 0]
    /\ UNCHANGED <<hasDialog, total, completed, lock, workerIds, workers,
                   mainUpdates, slotsShown, awaited, taskLog, notExec>>

\* future.cancel() by the caller: only a pending future is cancelled.
Cancel(i) ==
    /\ caller.pc = "idle"
    /\ i \in 1..Len(futures)
    /\ futures[i].state = "pending"
    /\ futures' = [futures EXCEPT ![i].state = "cancelled"]
    /\ UNCHANGED <<hasDialog, total, completed, lock, workerIds, queue, caller, workers,
                   mainUpdates, slotsShown, awaited, taskLog, notExec>>

\* future.result() by the caller, once the future is done.
Await(i) ==
    /\ caller.pc = "idle"
    /\ i \in 1..Len(futures)
    /\ futures[i].state \in {"finished", "cancelled"}
    /\ awaited[i] = NotAwaited
    /\ awaited' = [awaited EXCEPT ![i] = FutureResult(futures[i])]
    /\ UNCHANGED <<hasDialog, total, completed, lock, workerIds, queue, futures, caller,
                   workers, mainUpdates, slotsShown, taskLog, notExec>>

\* A pool thread takes the next work item; a cancelled one is dropped,
\* otherwise the future is running and worker_fn starts.
Take(t) ==
    /\ workers[t].pc = "idle"
    /\ queue # <<>>
    /\ queue' = Tail(queue)
    /\ IF futures[Head(queue)].state = "cancelled"
       THEN UNCHANGED <<futures, workers>>
       ELSE /\ futures' = [futures EXCEPT ![Head(queue)].state = "running"]
            /\ workers' = [workers EXCEPT ![t] = [NoLocals EXCEPT !.pc = "start",
                                                                !.task = Head(queue)]]
    /\ UNCHANGED <<hasDialog, total, completed, lock, workerIds, caller,
                   mainUpdates, slotsShown, awaited, taskLog, notExec>>

\* worker_fn, "with self.__lock:" entered and len(self.__worker_ids) read
IdLock(t) ==
    /\ workers[t].pc = "start"
    /\ LockFree(lock)
    /\ lock' = t
    /\ workers' = [workers EXCEPT ![t].pc = "idLocked", ![t].reg = LenWorkerIds(workerIds)]
    /\ UNCHANGED <<hasDialog, total, completed, workerIds, queue, futures, caller,
                   mainUpdates, slotsShown, awaited, taskLog, notExec>>

\* worker_fn, worker_id = setdefault(thread_name, len + 1), lock released
IdAssign(t) ==
    /\ workers[t].pc = "idLocked"
    /\ workerIds' = SetDefault(workerIds, t, workers[t].reg + 1)
    /\ lock' = ""
    /\ workers' = [workers EXCEPT ![t].pc = "fn", ![t].reg = 0,
                                  ![t].workerId = workerIds'[t]]
    /\ UNCHANGED <<hasDialog, total, completed, queue, futures, caller,
                   mainUpdates, slotsShown, awaited, taskLog, notExec>>

\* fn calls update_callback(payload): dialog.updateProgress(worker_id, payload)
TaskUpdate(t) ==
    /\ workers[t].pc = "fn"
    /\ hasDialog
    /\ slotsShown' = slotsShown \cup {workers[t].workerId}
    /\ UNCHANGED <<hasDialog, total, completed, lock, workerIds, queue, futures, caller,
                   workers, mainUpdates, awaited, taskLog, notExec>>

\* fn returns or raises.
TaskEnd(t, outcome) ==
    /\ workers[t].pc = "fn"
    /\ workers' = [workers EXCEPT ![t].pc = "finally", ![t].outcome = outcome]
    /\ taskLog' = [taskLog EXCEPT ![workers[t].task].outcome = outcome]
    /\ UNCHANGED <<hasDialog, total, completed, lock, workerIds, queue, futures, caller,
                   mainUpdates, slotsShown, awaited, notExec>>

\* finally, "with self.__lock:" entered and self.__completed_tasks read
CountLock(t) ==
    /\ workers[t].pc = "finally"
    /\ IF CountsCompletion(workers[t].outcome)
       THEN /\ LockFree(lock)
            /\ lock' = t
            /\ workers' = [workers EXCEPT ![t].pc = "countLocked", ![t].reg = completed]
       ELSE /\ workers' = [workers EXCEPT ![t].pc = "return"]
            /\ UNCHANGED lock
    /\ UNCHANGED <<hasDialog, total, completed, workerIds, queue, futures, caller,
                   mainUpdates, slotsShown, awaited, taskLog, notExec>>

\* finally, self.__completed_tasks written and the lock released
CountStore(t) ==
    /\ workers[t].pc = "countLocked"
    /\ completed' = Incremented(workers[t].reg)
    /\ lock' = ""
    /\ taskLog' = [taskLog EXCEPT ![workers[t].task].counted = @ + 1]
    /\ workers' = [workers EXCEPT ![t].pc = IF hasDialog THEN "text" ELSE "return",
                                  ![t].reg = 0]
    /\ UNCHANGED <<hasDialog, total, workerIds, queue, futures, caller,
                   mainUpdates, slotsShown, awaited, notExec>>

\* finally, the f-string of status_text reads self.__completed_tasks ...
ReadTextCompleted(t) ==
    /\ workers[t].pc = "text"
    /\ workers' = [workers EXCEPT ![t].pc = "textTotal", ![t].textCompleted = completed]
    /\ UNCHANGED <<hasDialog, total, completed, lock, workerIds, queue, futures, caller,
                   mainUpdates, slotsShown, awaited, taskLog, notExec>>

\* ... and self.__total_tasks
ReadTextTotal(t) ==
    /\ workers[t].pc = "textTotal"
    /\ workers' = [workers EXCEPT ![t].pc = "value", ![t].textTotal = total]
    /\ UNCHANGED <<hasDialog, total, completed, lock, workerIds, queue, futures, caller,
                   mainUpdates, slotsShown, awaited, taskLog, notExec>>

\* finally, value=self.__completed_tasks
ReadValue(t) ==
    /\ workers[t].pc = "value"
    /\ workers' = [workers EXCEPT ![t].pc = "maximum", ![t].value = completed]
    /\ UNCHANGED <<hasDialog, total, completed, lock, workerIds, queue, futures, caller,
                   mainUpdates, slotsShown, awaited, taskLog, notExec>>

\* finally, maximum=self.__total_tasks
ReadMaximum(t) ==
    /\ workers[t].pc = "maximum"
    /\ workers' = [workers EXCEPT ![t].pc = "emit", ![t].maximum = total]
    /\ UNCHANGED <<hasDialog, total, completed, lock, workerIds, queue, futures, caller,
                   mainUpdates, slotsShown, awaited, taskLog, notExec>>

\* finally, self.__dialog.updateMainProgress(ProgressUpdate(...))
EmitMain(t) ==
    /\ workers[t].pc = "emit"
    /\ mainUpdates' = Append(mainUpdates,
                             [textCompleted |-> workers[t].textCompleted,
                              textTotal |-> workers[t].textTotal,
                              value |-> workers[t].value,
                              maximum |-> workers[t].maximum])
    /\ workers' = [workers EXCEPT ![t].pc = "return"]
    /\ UNCHANGED <<hasDialog, total, completed, lock, workerIds, queue, futures, caller,
                   slotsShown, awaited, taskLog, notExec>>

\* worker_fn is left; the pool sets the future's result or exception.
Return(t) ==
    /\ workers[t].pc = "return"
    /\ futures' = [futures EXCEPT ![workers[t].task] =
                      FutureDone(workers[t].task, workers[t].outcome)]
    /\ workers' = [workers EXCEPT ![t] = NoLocals]
    /\ UNCHANGED <<hasDialog, total, completed, lock, workerIds, queue, caller,
                   mainUpdates, slotsShown, awaited, taskLog, notExec>>

(***************************************************************************)
(* ProgressDialog: run() starts the worker thread and enters the dialog's  *)
(* event loop; the worker's signals are handled by the main thread in that *)
(* loop; the user may close the dialog.                                    *)
(***************************************************************************)
\* Largest value and maximum a progress payload carries.
MaxProgress == 1
\* Number of update signals that may wait in the main thread's event queue.
MaxPending == 1

\* Python's None in an Optional[int] field.
NoneInt == -2
\* ProgressUpdate(status_text, value, maximum); the status texts of the
\* model are shorter than the 90 characters truncate_string cuts at.
Payloads == [status_text : {None, "Step 1"},
             value : {NoneInt} \cup (0..MaxProgress),
             maximum : {NoneInt} \cup (0..MaxProgress)]
NoPayload == [status_text |-> None, value |-> NoneInt, maximum |-> NoneInt]

\* A QProgressBar as constructed: range 0..100, no value set (-1).
DefaultMaximum == 100
NewProgressWidget == [label |-> "", minimum |-> 0, maximum |-> DefaultMaximum, value |-> -1]

\* QProgressBar.setMaximum(m) = setRange(min(minimum, m), m): a value that
\* falls outside the new range is reset to minimum - 1.
SetMaximum(bar, m) ==
    LET mn == IF bar.minimum < m THEN bar.minimum ELSE m
        b == [bar EXCEPT !.minimum = mn, !.maximum = m]
    IN IF mn = bar.minimum /\ m = bar.maximum THEN bar
       ELSE IF b.value < mn - 1 \/ b.value > m THEN [b EXCEPT !.value = mn - 1]
       ELSE b

\* QProgressBar.setValue(v): ignored when v is outside the range, unless the
\* range is 0..0.
SetValue(bar, v) ==
    IF (v > bar.maximum \/ v < bar.minimum) /\ (bar.maximum # 0 \/ bar.minimum # 0)
    THEN bar
    ELSE [bar EXCEPT !.value = v]

\* QProgressBar shows a busy indicator while minimum = maximum = 0.
Indeterminate(bar) == bar.minimum = 0 /\ bar.maximum = 0

\* ProgressWidget.updateProgress(payload)
UpdateProgress(w, payload) ==
    LET w1 == IF payload.status_text # None
              THEN [w EXCEPT !.label = payload.status_text] ELSE w
        w2 == IF payload.maximum # NoneInt THEN SetMaximum(w1, payload.maximum) ELSE w1
    IN IF payload.value # NoneInt THEN SetValue(w2, payload.value) ELSE w2

\* ProgressDialog.__update_main_progress, the taskbar part.
TaskbarAfter(tb, w) ==
    IF ~tb.available THEN tb
    ELSE IF w.maximum = 0 THEN [tb EXCEPT !.state = "indeterminate"]
    ELSE [tb EXCEPT !.state = "determinate"]

\* The callables of the model: one returns an object, one returns an object
\* that is an Exception instance, one raises an Exception.
Targets == {[how |-> "return", what |-> "value"],
            [how |-> "return", what |-> "Exception"],
            [how |-> "raise", what |-> "Exception"]}

\* Thread.__return_result before Thread.run assigned it.
Unset == "<unset>"
NewThread == [state |-> "new", ended |-> "", result |-> Unset]

\* Thread.run: the target's return value or its exception is stored.
ThreadRun(th, tg) == [th EXCEPT !.ended = IF tg.how = "return" THEN "returned" ELSE "raised",
                                !.result = tg.what]

\* isinstance(result, Exception)
IsException(v) == v = "Exception"

\* Thread.get_result followed by the end of ProgressDialog.run.
RunResult(th) ==
    IF th.result = Unset THEN [kind |-> "raised", value |-> "ProcessIncompleteError"]
    ELSE IF IsException(th.result) THEN [kind |-> "raised", value |-> th.result]
    ELSE [kind |-> "returned", value |-> th.result]

\* QThread.isRunning()
IsRunning(th) == th.state = "running"

NoOutcome == [kind |-> "", value |-> ""]

DialogIdle ==
    /\ thread = NewThread
    /\ runPc = "idle"
    /\ signals = <<>>
    /\ dialogOpen = FALSE
    /\ mainBar = NewProgressWidget
    /\ runOutcome = NoOutcome

DialogStart ==
    /\ target \in Targets
    /\ taskbar \in [available : BOOLEAN, state : {"unset"}]
    /\ DialogIdle

\* run(): self.show(), self.__thread.start(), super().exec() is entered
DialogRun ==
    /\ runPc = "idle"
    /\ runPc' = "exec"
    /\ dialogOpen' = TRUE
    /\ thread' = [thread EXCEPT !.state = "running"]
    /\ UNCHANGED <<target, signals, mainBar, taskbar, runOutcome, notDialog>>

\* The callable calls pdialog.updateMainProgress(p): the signal is emitted.
TargetUpdate(p) ==
    /\ IsRunning(thread) /\ thread.ended = ""
    /\ Len(signals) < MaxPending
    /\ signals' = Append(signals, [kind |-> "update", payload |-> p])
    /\ UNCHANGED <<target, thread, runPc, dialogOpen, mainBar, taskbar, runOutcome, notDialog>>

\* The callable returns or raises inside Thread.run.
TargetEnd ==
    /\ IsRunning(thread) /\ thread.ended = ""
    /\ thread' = ThreadRun(thread, target)
    /\ UNCHANGED <<target, runPc, signals, dialogOpen, mainBar, taskbar, runOutcome, notDialog>>

\* Thread.run has returned: the QThread finishes and emits finished.
ThreadFinish ==
    /\ IsRunning(thread) /\ thread.ended # ""
    /\ thread' = [thread EXCEPT !.state = "finished"]
    /\ signals' = Append(signals, [kind |-> "finished", payload |-> NoPayload])
    /\ UNCHANGED <<target, runPc, dialogOpen, mainBar, taskbar, runOutcome, notDialog>>

\* The event loop delivers an update signal: __update_main_progress(payload)
HandleUpdate ==
    /\ runPc \in {"exec", "messageBox"}
    /\ signals # <<>> /\ Head(signals).kind = "update"
    /\ signals' = Tail(signals)
    /\ mainBar' = UpdateProgress(mainBar, Head(signals).payload)
    /\ taskbar' = TaskbarAfter(taskbar, mainBar')
    /\ UNCHANGED <<target, thread, runPc, dialogOpen, runOutcome, notDialog>>

\* The event loop delivers finished: __on_finished calls self.accept()
HandleFinished ==
    /\ runPc \in {"exec", "messageBox"}
    /\ signals # <<>> /\ Head(signals).kind = "finished"
    /\ signals' = Tail(signals)
    /\ dialogOpen' = FALSE
    /\ UNCHANGED <<target, thread, runPc, mainBar, taskbar, runOutcome, notDialog>>

\* The user closes the window: closeEvent opens the confirmation box.
UserClose ==
    /\ runPc = "exec" /\ dialogOpen
    /\ runPc' = "messageBox"
    /\ UNCHANGED <<target, thread, signals, dialogOpen, mainBar, taskbar, runOutcome, notDialog>>

\* The user answers No: event.ignore()
AnswerNo ==
    /\ runPc = "messageBox"
    /\ runPc' = "exec"
    /\ UNCHANGED <<target, thread, signals, dialogOpen, mainBar, taskbar, runOutcome, notDialog>>

\* The user answers Yes: self.__thread.isRunning() is evaluated
AnswerYes ==
    /\ runPc = "messageBox"
    /\ runPc' = IF IsRunning(thread) THEN "terminate" ELSE "close"
    /\ UNCHANGED <<target, thread, signals, dialogOpen, mainBar, taskbar, runOutcome, notDialog>>

\* closeEvent after a Yes: self.__thread.terminate() if the thread was
\* running, then super().closeEvent(event) closes the dialog.
CloseConfirmed ==
    /\ runPc \in {"terminate", "close"}
    /\ thread' = IF runPc = "terminate" /\ IsRunning(thread)
                 THEN [thread EXCEPT !.state = "terminated"] ELSE thread
    /\ dialogOpen' = FALSE
    /\ runPc' = "exec"
    /\ UNCHANGED <<target, signals, mainBar, taskbar, runOutcome, notDialog>>

\* super().exec() returns once the dialog is closed; run() clears the
\* taskbar state, gets the thread's result and returns or raises.
ExecReturn ==
    /\ runPc = "exec" /\ ~dialogOpen
    /\ runPc' = "returned"
    /\ taskbar' = IF taskbar.available THEN [taskbar EXCEPT !.state = "cleared"] ELSE taskbar
    /\ runOutcome' = RunResult(thread)
    /\ UNCHANGED <<target, thread, signals, dialogOpen, mainBar, notDialog>>

(***************************************************************************)
(* Updater and BaseApp.check_for_updates.  A version is a release number   *)
(* and a prerelease tag: [release |-> 1, pre |-> 0] stands for "0.0.1",    *)
(* [release |-> 1, pre |-> 1] for "0.0.1-beta-1".                          *)
(***************************************************************************)
\* Largest prerelease tag; 0 is a version without prerelease part.
MaxPre == 1

SemVers == [release : 1..MaxVersion, pre : 0..MaxPre]
\* latest_version = None, and the version of a response that carries none.
NoVersion == [release |-> 0, pre |-> 0]

\* semantic_version: a < b.  With equal release a prerelease precedes the
\* version without prerelease part, and prereleases are ordered by their tag.
Precedes(a, b) ==
    \/ a.release < b.release
    \/ /\ a.release = b.release
       /\ \/ a.pre # 0 /\ b.pre = 0
          \/ a.pre # 0 /\ b.pre # 0 /\ a.pre < b.pre

\* What requests.get(update_url) and the parsing of its body can meet: no
\* connection, a status other than 200, or status 200 with a body that is
\* no JSON, JSON without "version", with a version that is no semantic
\* version, without "download_url", or complete.
Responses ==
    {[kind |-> "connection error", body |-> "", version |-> NoVersion],
     [kind |-> "status 404", body |-> "", version |-> NoVersion]}
    \cup {[kind |-> "status 200", body |-> b, version |-> NoVersion] :
              b \in {"not json", "no version", "bad version"}}
    \cup {[kind |-> "status 200", body |-> b, version |-> v] :
              b \in {"no download_url", "complete"}, v \in SemVers}
NoResponse == [kind |-> "", body |-> "", version |-> NoVersion]

\* get_raw_web_content_uncached(url): one requests.get; the exception it
\* leaves with, "" when it returns the body.
GetRawWebContentUncached(resp) ==
    IF resp.kind = "connection error" THEN "ConnectionError"
    ELSE IF resp.kind # "status 200" THEN "Non200HttpError"
    ELSE ""

\* Variant: Non200HttpError derives from requests' RequestException.
IsRequestException_WithNon200(exc) == exc \in {"ConnectionError", "Non200HttpError"}

\* except requests.exceptions.RequestException: the exceptions it catches.
\* Non200HttpError is none of them: it leaves is_update_available.
IsRequestException(exc) == exc = "ConnectionError"

\* Variant: check_for_updates catches RequestException only.
CheckCatches_RequestOnly(exc) == exc = "ConnectionError"

\* BaseApp.check_for_updates, "except Exception": the exceptions it catches.
CheckCatches(exc) ==
    exc \in {"ConnectionError", "Non200HttpError", "JSONDecodeError", "KeyError",
             "ValueError", "RuntimeError"}

\* Updater.__request_update on response resp: [raised, logged, updater]
RequestUpdate(u, resp) ==
    LET exc == GetRawWebContentUncached(resp)
    IN IF exc # ""
       THEN IF IsRequestException(exc)
            THEN [raised |-> "", logged |-> TRUE, updater |-> u]
            ELSE [raised |-> exc, logged |-> FALSE, updater |-> u]
       ELSE IF resp.body = "not json"
            THEN [raised |-> "JSONDecodeError", logged |-> FALSE, updater |-> u]
       ELSE IF resp.body = "no version"
            THEN [raised |-> "KeyError", logged |-> FALSE, updater |-> u]
       ELSE IF resp.body = "bad version"
            THEN [raised |-> "ValueError", logged |-> FALSE, updater |-> u]
       ELSE IF resp.body = "no download_url"
            THEN [raised |-> "KeyError", logged |-> FALSE,
                  updater |-> [u EXCEPT !.latest = resp.version]]
       ELSE [raised |-> "", logged |-> FALSE,
             updater |-> [u EXCEPT !.latest = resp.version, !.hasUrl = TRUE]]

\* Updater.is_update_available on response resp: [raised, logged, result, updater]
IsUpdateAvailable(u, resp) ==
    LET r == RequestUpdate(u, resp)
    IN [raised |-> r.raised, logged |-> r.logged, updater |-> r.updater,
        result |-> IF r.raised # "" \/ r.updater.latest = NoVersion THEN FALSE
                   ELSE Precedes(r.updater.installed, r.updater.latest)]

NoUpdater == [registered |-> FALSE, installed |-> NoVersion, latest |-> NoVersion,
              hasUrl |-> FALSE]

UpdOp(op, resp, raised, logged, result, requests) ==
    [op |-> op, resp |-> resp, raised |-> raised, logged |-> logged,
     result |-> result, requests |-> requests]

UpdaterStart ==
    /\ updater = NoUpdater
    /\ updaterDialog = FALSE
    /\ lastUpd = UpdOp("none", NoResponse, "", FALSE, FALSE, 0)

\* Updater(repo_name, repo_branch, repo_owner, installed_version=v)
NewUpdater(v) ==
    /\ IF updater.registered
       THEN /\ UNCHANGED updater
            /\ lastUpd' = UpdOp("Updater", NoResponse, "RuntimeError", FALSE, FALSE, 0)
       ELSE /\ updater' = [NoUpdater EXCEPT !.registered = TRUE, !.installed = v]
            /\ lastUpd' = UpdOp("Updater", NoResponse, "", FALSE, FALSE, 0)
    /\ UNCHANGED <<updaterDialog, notUpdater>>

\* updater.is_update_available() while the server answers with resp
IsUpdateAvailableCall(resp) ==
    /\ updater.registered /\ updater.installed # NoVersion
    /\ LET r == IsUpdateAvailable(updater, resp)
       IN /\ updater' = r.updater
          /\ lastUpd' = UpdOp("is_update_available", resp, r.raised, r.logged, r.result, 1)
    /\ UNCHANGED <<updaterDialog, notUpdater>>

\* BaseApp.check_for_updates() of an application with version appVersion:
\* configured says whether repository name, branch and owner are given;
\* resp answers the request for update.json.  When an update is available
\* get_changelog makes a second request, whose failure it turns into text.
CheckForUpdates(configured, appVersion, resp) ==
    /\ IF ~configured
       THEN /\ UNCHANGED <<updater, updaterDialog>>
            /\ lastUpd' = UpdOp("check_for_updates", NoResponse, "", FALSE, FALSE, 0)
       ELSE IF updater.registered
       THEN /\ UNCHANGED <<updater, updaterDialog>>
            /\ lastUpd' = UpdOp("check_for_updates", NoResponse,
                                IF CheckCatches("RuntimeError") THEN "" ELSE "RuntimeError",
                                CheckCatches("RuntimeError"), FALSE, 0)
       ELSE IF ~IsSemVer(appVersion)
       THEN /\ updater' = [NoUpdater EXCEPT !.registered = TRUE]
            /\ UNCHANGED updaterDialog
            /\ lastUpd' = UpdOp("check_for_updates", NoResponse,
                                IF CheckCatches("ValueError") THEN "" ELSE "ValueError",
                                CheckCatches("ValueError"), FALSE, 0)
       ELSE LET u == [NoUpdater EXCEPT !.registered = TRUE,
                                       !.installed = [release |-> appVersion, pre |-> 0]]
                r == IsUpdateAvailable(u, resp)
            IN /\ updater' = r.updater
               /\ updaterDialog' = (updaterDialog \/ (r.raised = "" /\ r.result))
               /\ lastUpd' = UpdOp("check_for_updates", resp,
                                   IF r.raised = "" \/ CheckCatches(r.raised)
                                   THEN "" ELSE r.raised,
                                   r.logged \/ (r.raised # "" /\ CheckCatches(r.raised)),
                                   r.result,
                                   IF r.raised = "" /\ r.result THEN 2 ELSE 1)
    /\ UNCHANGED notUpdater

\* The application exits and is started again.
UpdaterRestart ==
    /\ updater' = NoUpdater
    /\ updaterDialog' = FALSE
    /\ lastUpd' = UpdOp("restart", NoResponse, "", FALSE, FALSE, 0)
    /\ UNCHANGED notUpdater

(***************************************************************************)
(* AppConfig: three of its fields, one of each kind (an enum, a bounded     *)
(* integer, a boolean).  The user config file holds JSON: a value is       *)
(* modelled by its text.                                                   *)
(***************************************************************************)
\* Largest number of log files a user or the program sets besides the default.
MaxLogFiles == 1

\* Field(ge=-1) and the default of log_num_of_files.
MinNumOfFiles == -1
DefaultNumOfFiles == 5

Fields == {"log_level", "log_num_of_files", "log_visible"}

\* Variant: two fields share one key.
Alias_Shared(field) ==
    CASE field = "log_level" -> "log.level"
      [] field = "log_num_of_files" -> "log.num_of_files"
      [] field = "log_visible" -> "log.level"

\* Field(alias=...): the key of a field in the config file.
Alias(field) ==
    CASE field = "log_level" -> "log.level"
      [] field = "log_num_of_files" -> "log.num_of_files"
      [] field = "log_visible" -> "log.visible"

Aliases == {Alias(f) : f \in Fields}

\* Logger.Level members by value.
Levels == {"DEBUG", "CRITICAL"}

\* The field values of a new AppConfig.
DefaultConfig == [log_level |-> "DEBUG", log_num_of_files |-> DefaultNumOfFiles,
                  log_visible |-> FALSE]

\* Integers the model writes or assigns: one below the minimum up to
\* MaxLogFiles, and the default.
NumRange == ((MinNumOfFiles - 1)..MaxLogFiles) \cup {DefaultNumOfFiles}

\* A key the file does not hold.
Absent == "<absent>"

\* JSON texts written or assigned for a field: valid ones and others.
RawValues(field) ==
    CASE field = "log_level" -> Levels \cup {"LOUD"}
      [] field = "log_num_of_files" -> {ToString(n) : n \in NumRange} \cup {"many"}
      [] field = "log_visible" -> {"true", "false", "maybe"}

\* JSON texts a user config file may hold under a key.
FileValues(alias) == UNION {RawValues(f) : f \in {x \in Fields : Alias(x) = alias}}

\* Variant: the field has no lower bound.
ValidNumOfFiles_NoMinimum(n) == TRUE

\* Field(ge=-1)
ValidNumOfFiles(n) == n >= MinNumOfFiles

\* Validation of a JSON text for a field: [ok, value]; value is the
\* field's parsed value when ok.
ParseField(field, raw) ==
    CASE field = "log_level" ->
           [ok |-> raw \in Levels, value |-> raw]
      [] field = "log_num_of_files" ->
           [ok |-> \E n \in NumRange : ToString(n) = raw /\ ValidNumOfFiles(n),
            value |-> raw]
      [] field = "log_visible" ->
           [ok |-> raw \in {"true", "false"}, value |-> raw]

\* The JSON text of a field value, and the field value of a valid JSON text.
NumOf(text) == CHOOSE n \in NumRange : ToString(n) = text
FormatField(cfg, field) ==
    CASE field = "log_level" -> cfg.log_level
      [] field = "log_num_of_files" -> ToString(cfg.log_num_of_files)
      [] field = "log_visible" -> IF cfg.log_visible THEN "true" ELSE "false"

\* A config with one field set from a valid JSON text.
WithField(cfg, field, text) ==
    CASE field = "log_level" -> [cfg EXCEPT !.log_level = text]
      [] field = "log_num_of_files" -> [cfg EXCEPT !.log_num_of_files = NumOf(text)]
      [] field = "log_visible" -> [cfg EXCEPT !.log_visible = (text = "true")]

NoConfigFile == [exists |-> FALSE, data |-> [a \in Aliases |-> Absent]]

\* BaseConfig.load(user_config_path): defaults, overridden field by field by
\* the values of the user config file that pass validation.
RECURSIVE LoadFields(_, _, _)
LoadFields(cfg, file, fields) ==
    IF fields = {} THEN cfg
    ELSE LET f == CHOOSE x \in fields : TRUE
             raw == file.data[Alias(f)]
             next == IF file.exists /\ raw # Absent /\ ParseField(f, raw).ok
                     THEN WithField(cfg, f, raw) ELSE cfg
         IN LoadFields(next, file, fields \ {f})

LoadConfig(file) == LoadFields(DefaultConfig, file, Fields)

\* BaseConfig.save(): the fields that differ from their defaults are written
\* under their aliases; without any, the user config file is removed.
SaveConfig(cfg) ==
    LET changed == {f \in Fields : FormatField(cfg, f) # FormatField(DefaultConfig, f)}
    IN IF changed = {} THEN NoConfigFile
       ELSE [exists |-> TRUE,
             data |-> [a \in Aliases |->
                          IF \E f \in changed : Alias(f) = a
                          THEN FormatField(cfg, CHOOSE f \in changed : Alias(f) = a)
                          ELSE Absent]]

\* Assignment to a field (validate_assignment): [raised, config]
AssignField(cfg, field, text) ==
    IF ParseField(field, text).ok
    THEN [raised |-> "", config |-> WithField(cfg, field, text)]
    ELSE [raised |-> "ValidationError", config |-> cfg]

CfgOp(op, field, text, raised) == [op |-> op, field |-> field, text |-> text, raised |-> raised]

ConfigStart ==
    /\ configFile = NoConfigFile
    /\ config = DefaultConfig
    /\ lastCfg = CfgOp("none", "", "", "")

\* The user edits app.json by hand: any JSON text for any key, or deletes it.
EditConfigFile(file) ==
    /\ configFile' = file
    /\ lastCfg' = CfgOp("edit", "", "", "")
    /\ UNCHANGED <<config, notConfig>>

\* AppConfig.load(user_config_path)
ConfigLoad ==
    /\ config' = LoadConfig(configFile)
    /\ lastCfg' = CfgOp("load", "", "", "")
    /\ UNCHANGED <<configFile, notConfig>>

\* app_config.<field> = value
ConfigAssign(field, text) ==
    LET a == AssignField(config, field, text)
    IN /\ config' = a.config
       /\ lastCfg' = CfgOp("assign", field, text, a.raised)
       /\ UNCHANGED <<configFile, notConfig>>

\* app_config.save()
ConfigSave ==
    /\ configFile' = SaveConfig(config)
    /\ lastCfg' = CfgOp("save", "", "", "")
    /\ UNCHANGED <<config, notConfig>>

(***************************************************************************)
(* DirectoryScanner.scan_folder.  The entries below the scanned folder are *)
(* numbered 1..n in the order os.scandir yields them; 0 is the scanned     *)
(* folder itself.  An entry has a parent folder, a kind and may be faulty: *)
(* a faulty file fails in File._from_dir_entry (entry.stat()), a faulty    *)
(* folder fails in os.scandir.                                             *)
(***************************************************************************)
\* Largest number of entries below the scanned folder.
MaxEntries == 3

ScannedFolder == 0

Trees ==
    UNION {
      {[n |-> n, parent |-> p, kind |-> k, fault |-> f] :
          p \in {x \in [1..n -> 0..n] :
                    \A i \in 1..n : x[i] < i},
          k \in [1..n -> {"file", "dir"}],
          f \in [0..n -> BOOLEAN]}
      : n \in 0..MaxEntries}

\* Entries are inside folders only.
WellFormed(t) == \A i \in 1..t.n : t.parent[i] # ScannedFolder => t.kind[t.parent[i]] = "dir"

EmptyTree == [n |-> 0, parent |-> <<>>, kind |-> <<>>, fault |-> [i \in {0} |-> FALSE]]

\* os.scandir(folder): the entries of a folder, in order.
RECURSIVE ScanDir(_, _, _)
ScanDir(t, folder, from) ==
    IF from > t.n THEN <<>>
    ELSE (IF t.parent[from] = folder THEN <<from>> ELSE <<>>) \o ScanDir(t, folder, from + 1)

\* cls.scan_folder(entry_path, recursive): ignore_errors of the nested scan
\* is the parameter's default.
NestedIgnoreErrors(ignore_errors) == TRUE

\* if not ignore_errors: raise ex
Reraises(ignore_errors) == ~ignore_errors

\* scan_folder(folder, recursive, ignore_errors):
\* [raised, files (the result list), logged (entries of cls.log.error)]
RECURSIVE ScanFolder(_, _, _, _)
RECURSIVE ScanEntries(_, _, _, _, _)
ScanFolder(t, folder, recursive, ignore_errors) ==
    IF t.fault[folder]
    THEN [raised |-> TRUE, files |-> <<>>, logged |-> <<>>]
    ELSE ScanEntries(t, ScanDir(t, folder, 1), recursive, ignore_errors,
                     [raised |-> FALSE, files |-> <<>>, logged |-> <<>>])

ScanEntries(t, entries, recursive, ignore_errors, acc) ==
    IF entries = <<>> THEN acc
    ELSE
      LET entry == Head(entries)
          rest == Tail(entries)
      IN IF t.kind[entry] = "dir" /\ recursive
         THEN LET sub == ScanFolder(t, entry, recursive, NestedIgnoreErrors(ignore_errors))
              IN IF sub.raised
                 THEN LET logged == acc.logged \o sub.logged \o <<entry>>
                      IN IF Reraises(ignore_errors)
                         THEN [raised |-> TRUE, files |-> <<>>, logged |-> logged]
                         ELSE ScanEntries(t, rest, recursive, ignore_errors,
                                          [acc EXCEPT !.logged = logged])
                 ELSE ScanEntries(t, rest, recursive, ignore_errors,
                                  [acc EXCEPT !.files = acc.files \o sub.files,
                                              !.logged = acc.logged \o sub.logged])
         ELSE IF t.kind[entry] = "file"
         THEN IF t.fault[entry]
              THEN LET logged == Append(acc.logged, entry)
                   IN IF Reraises(ignore_errors)
                      THEN [raised |-> TRUE, files |-> <<>>, logged |-> logged]
                      ELSE ScanEntries(t, rest, recursive, ignore_errors,
                                       [acc EXCEPT !.logged = logged])
              ELSE ScanEntries(t, rest, recursive, ignore_errors,
                               [acc EXCEPT !.files = Append(acc.files, entry)])
         ELSE ScanEntries(t, rest, recursive, ignore_errors, acc)

NoScan == [op |-> "none", recursive |-> FALSE, ignore_errors |-> FALSE,
           raised |-> FALSE, files |-> <<>>, logged |-> <<>>]

ScanStart ==
    /\ scanTree = EmptyTree
    /\ lastScan = NoScan

\* DirectoryScanner.scan_folder(folder, recursive, ignore_errors)
ScanFolderCall(recursive, ignore_errors) ==
    LET r == ScanFolder(scanTree, ScannedFolder, recursive, ignore_errors)
    IN /\ lastScan' = [op |-> "scan", recursive |-> recursive,
                       ignore_errors |-> ignore_errors, raised |-> r.raised,
                       files |-> r.files, logged |-> r.logged]
       /\ UNCHANGED <<scanTree, notScan>>

(***************************************************************************)
(* SectionAreaWidget.  The toggle button is a checkable QPushButton: its   *)
(* toggled signal is emitted, and the connected slot run, inside the call  *)
(* that changes its checked state, and only when the state changes.        *)
(***************************************************************************)
\* Largest number of toggled signals the widget emits in a run.
MaxSignals == 3

Directions == {"Up", "Down"}
TogglePositions == {"Left", "Right"}

NoSection == [constructed |-> FALSE, shown |-> FALSE, direction |-> "Down",
              position |-> "Left", checked |-> FALSE, contentHidden |-> FALSE,
              icon |-> "none", signals |-> 0]

\* __init_header: the icon of the collapsed section.
InitialIcon(direction) == IF direction = "Down" THEN "chevron-down" ELSE "chevron-up"

\* __toggle: the icon for a state.
ToggleIcon(expanded, direction) ==
    IF (expanded /\ direction = "Down") \/ (~expanded /\ direction = "Up")
    THEN "chevron-up" ELSE "chevron-down"

\* Variant: the content widget is shown on every toggle.
ContentVisible_Always(expanded) == TRUE

\* self.__content_widget.setVisible(expanded)
ContentVisible(expanded) == expanded

\* self.toggled.emit(expanded)
EmitsToggled(expanded) == <<expanded>>

\* SectionAreaWidget.__toggle(expanded): [section, emitted]
ToggleSlot(sec, expanded) ==
    LET sig == EmitsToggled(expanded)
    IN [section |-> [sec EXCEPT !.icon = ToggleIcon(expanded, sec.direction),
                                !.contentHidden = ~ContentVisible(expanded),
                                !.signals = sec.signals + Len(sig)],
        emitted |-> sig]

\* QAbstractButton.setChecked(checked) with __toggle connected to toggled.
SetChecked(sec, checked) ==
    IF sec.checked = checked
    THEN [section |-> sec, emitted |-> <<>>]
    ELSE ToggleSlot([sec EXCEPT !.checked = checked], checked)

\* SectionAreaWidget.isExpanded()
IsExpanded(sec) == sec.checked

\* QWidget.isVisible() of the content widget.
ContentIsVisible(sec) == sec.shown /\ ~sec.contentHidden

SecOp(op, arg, before, emitted) == [op |-> op, arg |-> arg, before |-> before, emitted |-> emitted]

SectionStart ==
    /\ section = NoSection
    /\ lastSec = SecOp("none", FALSE, FALSE, <<>>)

\* SectionAreaWidget(header, content, toggle_position, direction)
SectionNew(position, direction) ==
    /\ ~section.constructed
    /\ section' = [NoSection EXCEPT !.constructed = TRUE, !.direction = direction,
                                    !.position = position, !.checked = FALSE,
                                    !.contentHidden = TRUE,
                                    !.icon = InitialIcon(direction)]
    /\ lastSec' = SecOp("new", FALSE, FALSE, <<>>)
    /\ UNCHANGED notSection

\* widget.show() / widget.hide()
SectionShow(shown) ==
    /\ section.constructed
    /\ section.shown # shown
    /\ section' = [section EXCEPT !.shown = shown]
    /\ lastSec' = SecOp("show", shown, section.checked, <<>>)
    /\ UNCHANGED notSection

\* A mouse click on the toggle button of a shown widget.
ButtonClick ==
    /\ section.constructed /\ section.shown
    /\ section.signals < MaxSignals
    /\ LET r == SetChecked(section, ~section.checked)
       IN /\ section' = r.section
          /\ lastSec' = SecOp("click", FALSE, section.checked, r.emitted)
    /\ UNCHANGED notSection

\* SectionAreaWidget.toggle()
SectionToggle ==
    /\ section.constructed
    /\ section.signals < MaxSignals
    /\ LET r == SetChecked(section, ~section.checked)
       IN /\ section' = r.section
          /\ lastSec' = SecOp("toggle", FALSE, section.checked, r.emitted)
    /\ UNCHANGED notSection

\* SectionAreaWidget.setExpanded(expanded)
SetExpanded(expanded) ==
    /\ section.constructed
    /\ section.signals < MaxSignals
    /\ LET r == SetChecked(section, expanded)
       IN /\ section' = r.section
          /\ lastSec' = SecOp("setExpanded", expanded, section.checked, r.emitted)
    /\ UNCHANGED notSection

(***************************************************************************)
(* Builder.run.  A run is given the step that fails, if any; a step that   *)
(* fails raises.  The folders and the output archive are present or not.   *)
(***************************************************************************)
\* Largest number of builds in a run of the model.
MaxBuilds == 3

\* The steps of a build, in order; "none": no step fails.
PrepareSteps == {"copy_src", "preprocess_source"}
BuildSteps == {"build", "copy_dist", "load_external_resources",
               "copy_external_resources", "delete_unused_files", "archive_dist"}
FailAt == PrepareSteps \cup BuildSteps \cup {"none"}

StepOrder(step) ==
    CASE step = "copy_src" -> 1
      [] step = "preprocess_source" -> 2
      [] step = "build" -> 3
      [] step = "copy_dist" -> 4
      [] step = "load_external_resources" -> 5
      [] step = "copy_external_resources" -> 6
      [] step = "delete_unused_files" -> 7
      [] step = "archive_dist" -> 8
      [] step = "none" -> 9

\* A step is run and succeeds when the failing step comes after it.
Passed(step, failAt) == StepOrder(step) < StepOrder(failAt)

NewBuildFs == [buildFolder |-> FALSE, backendOutput |-> FALSE, distFolder |-> FALSE,
               archive |-> FALSE, cleaned |-> 0, builds |-> 0]

\* Builder.__prepare_src(build_folder): an existing build folder is deleted,
\* the source copied and preprocessed.  A failed copy leaves a part of the
\* folder or nothing (leftover).
PrepareSrc(fs, failAt, leftover) ==
    IF failAt = "copy_src" THEN [fs EXCEPT !.buildFolder = leftover]
    ELSE [fs EXCEPT !.buildFolder = TRUE]

\* The body of the try statement of Builder.run.
TryBody(fs, failAt) ==
    [fs EXCEPT !.backendOutput = fs.backendOutput \/ Passed("build", failAt),
               !.distFolder = IF Passed("build", failAt)
                              THEN Passed("copy_dist", failAt) \/ failAt = "copy_dist"
                              ELSE fs.distFolder,
               !.archive = IF Passed("delete_unused_files", failAt)
                           THEN Passed("archive_dist", failAt)
                           ELSE fs.archive]

\* The finally clause of Builder.run: shutil.rmtree(build_folder,
\* ignore_errors=True), then backend.clean(main_module, exe_stem).
Finally(fs) ==
    [fs EXCEPT !.buildFolder = FALSE, !.backendOutput = FALSE, !.cleaned = fs.cleaned + 1]

\* Builder.run(): [fs, raised, returned, cleanCalled]
BuilderRun(fs, failAt, leftover, cleanFails) ==
    LET prepared == PrepareSrc(fs, failAt, leftover)
    IN IF failAt \in PrepareSteps
       THEN [fs |-> prepared, raised |-> TRUE, returned |-> FALSE, cleanCalled |-> FALSE]
       ELSE [fs |-> Finally(TryBody(prepared, failAt)),
             raised |-> (failAt # "none" \/ cleanFails),
             returned |-> (failAt = "none" /\ ~cleanFails),
             cleanCalled |-> TRUE]

NoBuild == [op |-> "none", failAt |-> "none", cleanFails |-> FALSE, raised |-> FALSE,
            returned |-> FALSE, cleanCalled |-> FALSE]

BuildStart ==
    /\ buildFs = NewBuildFs
    /\ lastBuild = NoBuild

\* Builder(config, backend).run()
Run(failAt, leftover, cleanFails) ==
    /\ buildFs.builds < MaxBuilds
    /\ LET r == BuilderRun(buildFs, failAt, leftover, cleanFails)
       IN /\ buildFs' = [r.fs EXCEPT !.builds = buildFs.builds + 1]
          /\ lastBuild' = [op |-> "run", failAt |-> failAt, cleanFails |-> cleanFails,
                            raised |-> r.raised, returned |-> r.returned,
                            cleanCalled |-> r.cleanCalled]
    /\ UNCHANGED notBuild

(***************************************************************************)
(* Specifications.                                                         *)
(***************************************************************************)
vars == <<cacheVars, raceVars, execVars, dialogVars, updaterVars, moreVars>>

\* The other subsystems at rest.
NoDialog == /\ DialogIdle /\ target = [how |-> "return", what |-> "value"]
            /\ taskbar = [available |-> FALSE, state |-> "unset"]
            /\ UpdaterStart
            /\ ConfigStart
            /\ ScanStart
            /\ SectionStart
            /\ BuildStart

\* The cache used by one process at a time.
Init == CacheStart /\ writers = WritersIdle /\ ExecStart /\ hasDialog = FALSE /\ NoDialog
Next ==
    \/ \E v \in AppVersions : Construct(v)
    \/ Clear
    \/ \E k \in Keys, m \in MaxAges, d \in Defaults : Get(k, m, d)
    \/ \E k \in Keys, v \in Values : Save(k, v)
    \/ \E k \in Keys, v \in Values, n \in 0..(MaxWrites - 1) : SaveInterrupted(k, v, n)
    \/ \E k \in Keys, m \in MaxAges : Call(k, m)
    \/ Tick
    \/ Restart
Spec == Init /\ [][Next]_vars

\* Two concurrent callers of save_to_cache in a process with a registered
\* cache, on a cache folder with or without an entry.
Registered == [id |-> 1, version |-> Development]
RaceInit ==
    /\ instance = Registered
    /\ \E d \in {CacheInit(EmptyDisk, Development).disk} :
          disk \in {d} \cup {SaveToCache(Registered, d, 0, k, v) : k \in Keys, v \in Values}
    /\ memo = EmptyMemo
    /\ now = 0
    /\ last = NoOp
    /\ RaceStart
    /\ ExecStart /\ hasDialog = FALSE
    /\ NoDialog
RaceNext ==
    \/ \E w \in Writers : RaceOpen(w)
    \/ \E w \in Writers : RaceWrite(w)
    \/ \E w \in Writers : RaceClose(w)
RaceSpec == RaceInit /\ [][RaceNext]_vars

\* A ProgressExecutor with two pool threads and one submitting thread.
ExecInit == CacheStart /\ writers = WritersIdle /\ ExecStart /\ NoDialog
ExecNext ==
    \/ SubmitLock
    \/ SubmitCount
    \/ SubmitEnqueue
    \/ \E i \in Tasks : Cancel(i)
    \/ \E i \in Tasks : Await(i)
    \/ \E t \in Threads : Take(t)
    \/ \E t \in Threads : IdLock(t)
    \/ \E t \in Threads : IdAssign(t)
    \/ \E t \in Threads : TaskUpdate(t)
    \/ \E t \in Threads, o \in {"returned", "raised"} : TaskEnd(t, o)
    \/ \E t \in Threads : CountLock(t)
    \/ \E t \in Threads : CountStore(t)
    \/ \E t \in Threads : ReadTextCompleted(t)
    \/ \E t \in Threads : ReadTextTotal(t)
    \/ \E t \in Threads : ReadValue(t)
    \/ \E t \in Threads : ReadMaximum(t)
    \/ \E t \in Threads : EmitMain(t)
    \/ \E t \in Threads : Return(t)
ExecSpec == ExecInit /\ [][ExecNext]_vars

\* A ProgressDialog run once, with its worker thread and the user.
DialogInit == CacheStart /\ writers = WritersIdle /\ ExecStart /\ hasDialog = FALSE
              /\ DialogStart /\ UpdaterStart
              /\ ConfigStart /\ ScanStart /\ SectionStart /\ BuildStart
DialogNext ==
    \/ DialogRun
    \/ \E p \in Payloads : TargetUpdate(p)
    \/ TargetEnd
    \/ ThreadFinish
    \/ HandleUpdate
    \/ HandleFinished
    \/ UserClose
    \/ AnswerNo
    \/ AnswerYes
    \/ CloseConfirmed
    \/ ExecReturn
DialogSpec == DialogInit /\ [][DialogNext]_vars

\* An application that checks for updates, and direct users of Updater.
UpdaterInit == CacheStart /\ writers = WritersIdle /\ ExecStart /\ hasDialog = FALSE
               /\ NoDialog

\* The starting state of every subsystem.
AtRest == CacheStart /\ writers = WritersIdle /\ ExecStart /\ hasDialog = FALSE
          /\ NoDialog
UpdaterNext ==
    \/ \E v \in SemVers : NewUpdater(v)
    \/ \E resp \in Responses : IsUpdateAvailableCall(resp)
    \/ \E c \in BOOLEAN, v \in AppVersions, resp \in Responses : CheckForUpdates(c, v, resp)
    \/ UpdaterRestart
UpdaterSpec == UpdaterInit /\ [][UpdaterNext]_vars

\* The settings of an application: loaded, changed, saved, edited by hand.
UserConfigFiles ==
    {NoConfigFile} \cup
    {[exists |-> TRUE, data |-> d] :
        d \in {x \in [Aliases -> UNION {FileValues(a) : a \in Aliases} \cup {Absent}] :
                  \A a \in Aliases : x[a] \in FileValues(a) \cup {Absent}}}
ConfigInit == AtRest
ConfigNext ==
    \/ \E file \in UserConfigFiles : EditConfigFile(file)
    \/ ConfigLoad
    \/ \E f \in Fields : \E text \in RawValues(f) : ConfigAssign(f, text)
    \/ ConfigSave
ConfigSpec == ConfigInit /\ [][ConfigNext]_vars

\* Scans of every folder tree of up to MaxEntries entries.
ScanInit ==
    /\ CacheStart /\ writers = WritersIdle /\ ExecStart /\ hasDialog = FALSE
    /\ DialogIdle /\ target = [how |-> "return", what |-> "value"]
    /\ taskbar = [available |-> FALSE, state |-> "unset"]
    /\ UpdaterStart /\ ConfigStart /\ SectionStart /\ BuildStart
    /\ scanTree \in {t \in Trees : WellFormed(t)}
    /\ lastScan = NoScan
ScanNext == \E recursive \in BOOLEAN, ignore_errors \in BOOLEAN :
               ScanFolderCall(recursive, ignore_errors)
ScanSpec == ScanInit /\ [][ScanNext]_vars

\* A section that is constructed, shown, hidden, clicked and set.
SectionInit == AtRest
SectionNext ==
    \/ \E position \in TogglePositions, direction \in Directions :
          SectionNew(position, direction)
    \/ \E shown \in BOOLEAN : SectionShow(shown)
    \/ ButtonClick
    \/ SectionToggle
    \/ \E expanded \in BOOLEAN : SetExpanded(expanded)
SectionSpec == SectionInit /\ [][SectionNext]_vars

\* Builds of one project, each with at most one failing step.
BuildInit == AtRest
BuildNext == \E failAt \in FailAt, leftover \in BOOLEAN, cleanFails \in BOOLEAN :
                Run(failAt, leftover, cleanFails)
BuildSpec == BuildInit /\ [][BuildNext]_vars

(***************************************************************************)
(* Properties.                                                             *)
(***************************************************************************)

\* C1: with a Cache instance registered, save_to_cache(K, V) followed by
\* get_from_cache(K) returns V, whatever was saved and read for K before.
C1_RoundTrip ==
    [][\A k \in Keys :
          (last.op = "save" /\ last.key = k /\ last.registered
              /\ Get(k, NoMaxAge, Undefined))
          => (last'.raised = "" /\ last'.result = last.arg)]_vars

\* C2: with a Cache instance registered and no expiry, the second of two
\* consecutive calls of a persistent_cache-wrapped function with the same
\* arguments does not invoke the function and returns the result of the first.
C2_SecondCallNotInvoked ==
    [][\A k \in Keys :
          (last.op = "call" /\ last.key = k /\ last.registered
              /\ last.maxAge = NoMaxAge /\ last.raised = ""
              /\ Call(k, NoMaxAge))
          => (~last'.invoked /\ last'.raised = "" /\ last'.result = last.result)]_vars

\* C3: once the caller has awaited the results of all N submitted tasks, each
\* of which returned or raised, completed = total = N.
AllAwaited ==
    /\ caller.pc = "idle"
    /\ Len(futures) > 0
    /\ \A i \in 1..Len(futures) : awaited[i].got \in {"returned", "raised"}

C3_AllCounted == AllAwaited => (completed = Len(futures) /\ total = Len(futures))

C3_Witness ==
    /\ AllAwaited
    /\ Len(futures) = 2
    /\ awaited[1].got = "raised"
    /\ awaited[2].got = "returned"

\* C4: the payloads handed to updateMainProgress, in call order, carry
\* non-decreasing completed values.
C4_MonotonicUpdates ==
    \A i \in 1..Len(mainUpdates) : \A j \in 1..Len(mainUpdates) :
        i < j => mainUpdates[i].value <= mainUpdates[j].value

\* C5: a call of a persistent_cache-wrapped function with max_age = M on a
\* stored entry older than M invokes the function and stores its result; on a
\* stored entry not older than M it returns without invoking the function.
C5_MaxAge ==
    (last.op = "call" /\ last.registered /\ last.maxAge # NoMaxAge
        /\ last.age # NoAge /\ last.raised = "")
    => IF last.age > last.maxAge
       THEN /\ last.invoked
            /\ disk.files[last.key].exists
            /\ PickleLoad(disk.files[last.key].content).val = last.result
       ELSE ~last.invoked

\* C6: after clear_caches() the cache folder does not exist, a get_from_cache
\* that follows returns the default if one is supplied and raises
\* FileNotFoundError otherwise, and a persistent_cache-wrapped call that
\* follows invokes its function and stores the entry again.
C6_CleanMissAfterClear ==
    [][/\ (Clear => ~disk'.root)
       /\ \A k \in Keys, m \in MaxAges, d \in Defaults :
             (last.op = "clear" /\ Get(k, m, d))
             => IF d # Undefined
                THEN last'.raised = "" /\ last'.result = d
                ELSE last'.raised = "FileNotFoundError"
       /\ \A k \in Keys, m \in MaxAges :
             (last.op = "clear" /\ Call(k, m))
             => (last'.invoked /\ disk'.files[k].exists)]_vars

\* C7: constructing Cache with release A on a folder whose version marker
\* holds an older release, or that has no marker and is not empty, removes
\* every entry: none can be read through the new instance.
OlderMarker(d, v) ==
    \/ /\ d.marker.exists /\ d.marker.version # Development /\ v # Development
       /\ d.marker.version < v
    \/ ~d.marker.exists /\ d.root /\ d.sub

C8_SecondInstanceRejected ==
    [][\A v \in AppVersions :
          (Construct(v) /\ instance # NoInstance)
          => /\ last'.raised = "RuntimeError"
             /\ instance' = instance
             /\ disk' = disk]_vars

C8_Witness ==
    /\ last.op = "construct" /\ last.raised = "RuntimeError"
    /\ instance # NoInstance

\* C9: when a submitted callable raises, completed is increased exactly once
\* for its task, by one, and result() of its future raises that exception.
RECURSIVE CountedUpTo(_)
CountedUpTo(n) == IF n = 0 THEN 0 ELSE taskLog[n].counted + CountedUpTo(n - 1)

C9_RaisedTaskCounted ==
    /\ lock = "" => completed = CountedUpTo(MaxTasks)
    /\ \A i \in 1..Len(futures) :
          (taskLog[i].outcome = "raised" /\ futures[i].state = "finished")
          => /\ taskLog[i].counted = 1
             /\ futures[i].raised
             /\ futures[i].value = ExceptionOf(i)
             /\ awaited[i] \in {NotAwaited, [got |-> "raised", value |-> ExceptionOf(i)]}

C9_Witness ==
    \E i \in 1..Len(futures) :
        /\ taskLog[i].outcome = "raised"
        /\ awaited[i] = [got |-> "raised", value |-> ExceptionOf(i)]
        /\ completed = 1

\* C10: after two concurrent save_to_cache calls on one key with V1 and V2
\* have returned, the entry unpickles to V1 or to V2.
BothReturned ==
    /\ \A w \in Writers : writers[w].pc = "returned"
    /\ \A w1, w2 \in Writers : writers[w1].key = writers[w2].key

C10_OneOfTheTwoValues ==
    BothReturned =>
        \A w \in Writers :
            LET r == PickleLoad(disk.files[writers[w].key].content)
            IN r.raised = "" /\ r.val \in {writers[x].data : x \in Writers}

\* C11: get_from_cache on a key without a stored entry returns the default
\* when one is supplied (None included) and raises FileNotFoundError exactly
\* when none is supplied.
C11_DefaultOrNotFound ==
    (last.op = "get" /\ last.age = NoAge)
    => IF last.arg # Undefined
       THEN last.raised = "" /\ last.result = last.arg
       ELSE last.raised = "FileNotFoundError"

\* C12: while the stored file of a key cannot be unpickled (and has not
\* expired), get_from_cache raises the unpickling error with or without a
\* default, and a persistent_cache-wrapped call raises it too, without
\* invoking its function and without touching the entry.
Undeserializable(f) == f.exists /\ PickleLoad(f.content).raised # ""

C12_DeserializationErrorSurfaces ==
    [][/\ \A k \in Keys, m \in MaxAges, d \in Defaults :
             (instance # NoInstance /\ Undeserializable(disk.files[k])
                 /\ ~Expired(disk.files[k], m, now) /\ Get(k, m, d))
             => last'.raised = PickleLoad(disk.files[k].content).raised
       /\ \A k \in Keys, m \in MaxAges :
             (instance # NoInstance /\ Undeserializable(disk.files[k])
                 /\ ~Expired(disk.files[k], m, now) /\ Call(k, m))
             => /\ last'.raised = PickleLoad(disk.files[k].content).raised
                /\ ~last'.invoked
                /\ disk' = disk]_vars

\* C13: while no Cache instance is registered, save_to_cache returns
\* normally and leaves every file and directory as it was.
C13_SaveWithoutInstanceIsNoOp ==
    [][\A k \in Keys, v \in Values :
          (instance = NoInstance /\ Save(k, v))
          => (disk' = disk /\ last'.raised = "")]_vars

C13_Witness ==
    /\ last.op = "save" /\ ~last.registered
    /\ instance = NoInstance
    /\ disk.files[last.key].exists
    /\ PickleLoad(disk.files[last.key].content).val # last.arg

\* C14: worker slot ids are assigned by first-seen thread name and kept: the
\* ids of the k threads that have run tasks are exactly 1..k (so no two
\* threads share one), an assigned id never changes, and every task a thread
\* runs uses the id of its thread.
AssignedThreads(ids) == {t \in Threads : ids[t] # 0}

C14_SlotIds ==
    [][/\ {workerIds'[t] : t \in AssignedThreads(workerIds')}
              = 1..Cardinality(AssignedThreads(workerIds'))
       /\ \A t \in Threads : workerIds[t] # 0 => workerIds'[t] = workerIds[t]
       /\ \A t \in Threads :
             workers'[t].pc \notin {"idle", "start", "idLocked"}
             => workers'[t].workerId = workerIds'[t]
       /\ slotsShown' \subseteq {workerIds'[t] : t \in AssignedThreads(workerIds')}]_vars

C14_Witness ==
    /\ {workerIds[t] : t \in Threads} = {1, 2}
    /\ \A t \in Threads : workers[t].pc = "fn" /\ workers[t].workerId = workerIds[t]
    /\ slotsShown = {1, 2}

\* C15: with a dialog, every task that ran has handed one payload to
\* updateMainProgress once its worker_fn is left, and every payload is a
\* consistent snapshot: its value is the completed count of its status text,
\* its maximum the total of its status text, and 1 <= value <= maximum.
RanTasks == {i \in Tasks : taskLog[i].outcome # ""}

C15_ConsistentSnapshot ==
    /\ (hasDialog /\ \A t \in Threads : workers[t].pc = "idle")
          => Len(mainUpdates) = Cardinality(RanTasks)
    /\ \A i \in 1..Len(mainUpdates) :
          /\ mainUpdates[i].value = mainUpdates[i].textCompleted
          /\ mainUpdates[i].maximum = mainUpdates[i].textTotal
          /\ 1 <= mainUpdates[i].value
          /\ mainUpdates[i].value <= mainUpdates[i].maximum

\* C16: ProgressDialog.run() ends in one of three ways: it returns the
\* callable's return value when the callable returned; it raises the
\* callable's exception when the callable raised; it raises
\* ProcessIncompleteError when the worker thread was terminated, after the
\* user's confirmation, before the callable ended.  A declined confirmation
\* leaves the dialog and the worker thread as they are.
C16_RunOutcomes ==
    [][/\ runPc' = "returned" =>
             \/ /\ thread'.ended = "returned"
                /\ runOutcome' = [kind |-> "returned", value |-> target.what]
             \/ /\ thread'.ended = "raised"
                /\ runOutcome' = [kind |-> "raised", value |-> target.what]
             \/ /\ thread'.ended = "" /\ thread'.state = "terminated"
                /\ runOutcome' = [kind |-> "raised", value |-> "ProcessIncompleteError"]
       /\ AnswerNo => UNCHANGED <<dialogOpen, thread>>]_vars

\* C17: applying a ProgressUpdate leaves the label text, the value and the
\* maximum of the indicator as they were where the payload's field is None,
\* and afterwards the indicator is indeterminate exactly when its maximum is 0.
C17_NoneLeavesUnchanged ==
    [][HandleUpdate =>
          LET p == Head(signals).payload
          IN /\ p.status_text = None => mainBar'.label = mainBar.label
             /\ p.value = NoneInt => mainBar'.value = mainBar.value
             /\ p.maximum = NoneInt => mainBar'.maximum = mainBar.maximum
             /\ Indeterminate(mainBar') <=> mainBar'.maximum = 0
             /\ taskbar.available
                   => (taskbar'.state = "indeterminate" <=> mainBar'.maximum = 0)]_vars

\* C18: BaseApp.check_for_updates returns normally whatever the update
\* request meets (no connection, a status other than 200, a malformed
\* update.json), and such a failure is logged.
FailedResponse(resp) ==
    resp # NoResponse /\ ~(resp.kind = "status 200" /\ resp.body = "complete")

C18_UpdateFailuresSwallowed ==
    lastUpd.op = "check_for_updates"
    => /\ lastUpd.raised = ""
       /\ FailedResponse(lastUpd.resp) => lastUpd.logged

C18_Witness ==
    /\ lastUpd.op = "check_for_updates"
    /\ lastUpd.resp.kind = "status 404"
    /\ lastUpd.raised = "" /\ lastUpd.logged

\* C19: every call of Updater.is_update_available makes exactly one request,
\* and when the answer has a status other than 200 the call raises
\* Non200HttpError.
C19_Non200Raises ==
    lastUpd.op = "is_update_available"
    => /\ lastUpd.requests = 1
       /\ lastUpd.resp.kind = "status 404" => lastUpd.raised = "Non200HttpError"

C19_Witness ==
    /\ lastUpd.op = "is_update_available"
    /\ lastUpd.resp.kind = "status 404"
    /\ lastUpd.raised = "Non200HttpError"
    /\ lastUpd.requests = 1

\* C20: a call of Updater.is_update_available that returns, returns True
\* exactly when the update.json fetched by this call carries a version that
\* the installed version precedes, and False otherwise.
C20_TrueIffNewerFetched ==
    (lastUpd.op = "is_update_available" /\ lastUpd.raised = "")
    => (lastUpd.result
          <=> /\ lastUpd.resp.kind = "status 200" /\ lastUpd.resp.body = "complete"
              /\ Precedes(updater.installed, lastUpd.resp.version))

\* C25: after an entry was read, expired and was recomputed to V2 by a
\* persistent_cache-wrapped call, the next call within max_age returns V2.
C25_RecomputedValueServed ==
    [][\A k \in Keys, m \in MaxAges :
          (/\ memo[k] # NotMemoized
           /\ last.op = "call" /\ last.key = k /\ last.registered
           /\ last.raised = "" /\ last.invoked
           /\ last.maxAge # NoMaxAge /\ last.age # NoAge /\ last.age > last.maxAge
           /\ m # NoMaxAge /\ ~Expired(disk.files[k], m, now)
           /\ Call(k, m))
          => (last'.raised = "" /\ last'.result = last.result)]_vars

\* C26: with a dialog, once all N submitted tasks have finished, the payload
\* handed to updateMainProgress last has value = maximum = N.
AllFinished ==
    /\ caller.pc = "idle"
    /\ Len(futures) > 0
    /\ \A i \in 1..Len(futures) : futures[i].state = "finished"

C26_LastUpdateIsFinal ==
    (hasDialog /\ AllFinished)
    => /\ mainUpdates # <<>>
       /\ mainUpdates[Len(mainUpdates)].value = Len(futures)
       /\ mainUpdates[Len(mainUpdates)].maximum = Len(futures)

\* C27: once every submitted future is done, those cancelled before they
\* started included, completed = total.
AllDone ==
    /\ caller.pc = "idle"
    /\ Len(futures) > 0
    /\ \A i \in 1..Len(futures) : futures[i].state \in {"finished", "cancelled"}

C27_DoneMeansCounted == AllDone => completed = total

\* C28: a construction of Cache that starts without a registered instance and
\* raises leaves no instance registered.
C28_FailedConstructionNotRegistered ==
    [][\A v \in AppVersions :
          (instance = NoInstance /\ Construct(v) /\ last'.raised # "")
          => instance' = NoInstance]_vars

\* C29: 0 <= completed <= total; neither counter decreases; total is the
\* number of submit calls that have counted themselves; completed is the
\* number of tasks counted in worker_fn's finally clause, which lies between
\* the number of worker functions left and the number of callables ended.
SubmitsCounted == Len(futures) + (IF caller.pc = "enqueue" THEN 1 ELSE 0)
WorkerFnsLeft == Cardinality({i \in 1..Len(futures) : futures[i].state = "finished"})

RECURSIVE Reached(_, _, _)
Reached(t, entry, recursive) ==
    LET p == t.parent[entry]
    IN /\ ~t.fault[p]
       /\ p # ScannedFolder => (recursive /\ Reached(t, p, recursive))

\* The entries of the tree where a scan meets an error.
ErrorsMet(t, recursive) ==
    {e \in 1..t.n : /\ Reached(t, e, recursive)
                    /\ t.fault[e]
                    /\ t.kind[e] = "dir" => recursive}

SeqRange(q) == {q[i] : i \in DOMAIN q}

\* C23: with ignore_errors = False a scan raises whenever it meets an
\* error on a file or folder of the tree, at any depth; with ignore_errors =
\* True an error on an entry is logged and the other files are returned.
C23_ErrorsPropagateAtAnyDepth ==
    lastScan.op = "scan" =>
      /\ (~lastScan.ignore_errors
            /\ (scanTree.fault[ScannedFolder]
                  \/ ErrorsMet(scanTree, lastScan.recursive) # {}))
           => lastScan.raised
      /\ (lastScan.ignore_errors /\ ~scanTree.fault[ScannedFolder])
           => /\ ~lastScan.raised
              /\ ErrorsMet(scanTree, lastScan.recursive) \subseteq SeqRange(lastScan.logged)
              /\ SeqRange(lastScan.files) =
                    {e \in 1..scanTree.n : /\ scanTree.kind[e] = "file"
                                           /\ ~scanTree.fault[e]
                                           /\ Reached(scanTree, e, lastScan.recursive)}

\* C24: the section starts collapsed; while the widget is shown the content
\* is visible exactly when isExpanded(); a click, toggle() or setExpanded
\* that changes the state emits toggled once, with the new state, and
\* setExpanded with the current state emits nothing.
C24_ContentFollowsExpanded ==
    section.constructed =>
      /\ lastSec.op = "new" => ~IsExpanded(section)
      /\ section.shown => (ContentIsVisible(section) <=> IsExpanded(section))
      /\ lastSec.op \in {"click", "toggle"} => IsExpanded(section) # lastSec.before
      /\ lastSec.op = "setExpanded" => IsExpanded(section) = lastSec.arg
      /\ lastSec.op \in {"click", "toggle", "setExpanded"} =>
            lastSec.emitted = IF IsExpanded(section) # lastSec.before
                              THEN <<IsExpanded(section)>> ELSE <<>>

\* C24 witness: a shown, expanded section is collapsed by setExpanded(False).
C24_Witness ==
    /\ section.shown
    /\ lastSec.op = "setExpanded"
    /\ lastSec.before /\ ~lastSec.arg
    /\ lastSec.emitted = <<FALSE>>
    /\ ~ContentIsVisible(section)

\* C30: after Builder.run, whichever step failed, the build folder is gone
\* and backend.clean has been called; the archive path is returned only
\* when no step failed.
C30_BuildFolderAlwaysRemoved ==
    lastBuild.op = "run" =>
      /\ ~buildFs.buildFolder
      /\ lastBuild.cleanCalled
      /\ lastBuild.returned => (lastBuild.failAt = "none" /\ ~lastBuild.cleanFails)

====
